---------------------------- MODULE Spec2Model ----------------------------
(***************************************************************************)
(* Model of py3status' Module class (src/py3status/module.py): one status  *)
(* Unit, its producers ("methods"), the per-producer cache, the one-shot   *)
(* threading.Timer objects that re-run Module.run, and the lifecycle calls *)
(* force_update / sleep / wake / kill / click_event made by other threads. *)
(*                                                                         *)
(* Module.run is not atomic: it is cut where the code calls out of the     *)
(* class (the producer, report_exception, Timer.start), which is where     *)
(* another thread can run.  The lifecycle calls contain no such call       *)
(* before their last statement and are single steps.                       *)
(***************************************************************************)
EXTENDS Integers, Sequences, FiniteSets, Bags, TLC

\* ------------------------------------------------------------------ bounds
MaxTime == 2
MaxCalls == 2
\* the largest number of named parameters of a callable
MaxArgs == 3

\* ------------------------------------------------------- program constants
\* self.config['cache_timeout'] and self.config['minimum_interval']: the
\* configuration the Unit runs under, in seconds
cache_timeout == 2
minimum_interval == 1
\* py3status.py3.PY3_CACHE_FOREVER
PY3_CACHE_FOREVER == -1
\* Python's None, as the value of cache_time
None == -2
PARAMS_NEW == "new"
PARAMS_LEGACY == "legacy"

\* the Unit under test: "module_name instance"
module_name == "unit"
module_inst == "one"

\* texts a producer may return
Texts == {"ok"}

VARIABLES
    stage,          \* "new" before Module.__init__, then "loaded", or
                    \* "raised" when __init__ raised
    mod_config,     \* self.i3status_thread.config.get(module, {})
    class_inst,     \* the callables of the Unit's class, each with what
                    \* inspect.getargspec says of it
    click_events,   \* self.click_events
    has_kill,       \* self.has_kill
    call_type,      \* self.methods[m]['call_type']
    now,            \* time()
    lock,           \* py3_wrapper.lock.is_set()
    module_options, \* self.module_options
    methods,        \* the keys of self.methods, in their order
    cached_until,   \* self.methods[m]['cached_until']
    last_output,    \* self.methods[m]['last_output']
    cache_time,     \* self.cache_time
    sleeping,       \* self.sleeping
    nagged,         \* self.nagged
    timer,          \* self.timer
    orphans,        \* started Timers that self.timer no longer refers to
    runs,           \* the threads inside Module.run
    event,          \* what the last step did: a call of py3_wrapper, a
                    \* producer called or found cached, a Timer started,
                    \* an exception raised to the caller
    calls,          \* number of calls made by other threads so far
    recording,      \* whether this behaviour keeps the history below
    terminated,     \* history: kill() has been called
    hist,           \* history: outcomes of the last producer invocations
    retry_after,    \* history: time of a producer's last failure plus
                    \* cache_timeout, while that lies ahead
    forced,         \* history: producers force_update made due and that
                    \* were not called since
    outcome         \* history: what the run cycle that began last did with
                    \* each producer so far: "" not reached, "cached"
                    \* skipped, "ok" called and stored, "failed"

vars == <<stage, mod_config, class_inst, click_events, has_kill, call_type,
          now, lock, module_options, methods, cached_until, last_output, cache_time,
          sleeping, nagged, timer, orphans, runs, event, calls, recording,
          terminated, hist, retry_after, forced, outcome>>

Max(a, b) == IF a >= b THEN a ELSE b

Meths == 1..Len(methods)

\* ------------------------------------------------------------ dictionaries
EmptyDict == [k \in {} |-> ""]
HasKey(d, k) == k \in DOMAIN d
\* dict.update: the values of u win
DictUpdate(d, u) == u @@ d
DictSet(d, k, v) == (k :> v) @@ d

\* ---------------------------------------------------- set_module_options
\* a configuration value carries its Python type
CfgVal(t, v) == [t |-> t, v |-> v]

\* str.lower(), for the strings the model uses
Lower(v) == IF v = "LEFT" THEN "left" ELSE v

\* lines 141-158 without the test of align
set_module_options_raises_no_align(cfg) ==
    \/ /\ HasKey(cfg, "separator")
       /\ cfg["separator"].t # "bool"
    \/ /\ HasKey(cfg, "separator_block_width")
       /\ cfg["separator_block_width"].t \notin {"int", "bool"}

set_module_options_raises(cfg) ==
    \/ /\ HasKey(cfg, "separator")
       /\ cfg["separator"].t # "bool"
    \/ /\ HasKey(cfg, "separator_block_width")
       /\ cfg["separator_block_width"].t \notin {"int", "bool"}
    \/ /\ HasKey(cfg, "align")
       /\ ~ ( /\ cfg["align"].t = "str"
              /\ Lower(cfg["align"].v) \in {"left", "center", "right"} )

set_module_options(cfg) ==
    [k \in DOMAIN cfg \cap
            {"min_width", "separator", "separator_block_width", "align"}
        |-> cfg[k]]

\* the configurations a Unit is constructed with
ModConfigs ==
    { ("min_width" :> CfgVal("str", "wide")) @@ ("align" :> CfgVal("str", "left")) }

\* the values a configuration may give each universal option, rightly typed
\* or not; Absent: the configuration does not name the option
Absent == CfgVal("absent", "")
MinWidths == {Absent, CfgVal("int", "10"), CfgVal("str", "wide")}
Separators == {Absent, CfgVal("bool", "False"), CfgVal("str", "yes")}
BlockWidths == {Absent, CfgVal("int", "9"), CfgVal("bool", "True"),
                CfgVal("str", "9")}
Aligns == {Absent, CfgVal("str", "left"), CfgVal("str", "LEFT"),
           CfgVal("str", "middle"), CfgVal("int", "1")}

Config(a, b, c, d) ==
    LET all == [min_width |-> a, separator |-> b,
                separator_block_width |-> c, align |-> d]
    IN [k \in {o \in DOMAIN all : all[o] # Absent} |-> all[k]]

AllModConfigs ==
    {Config(a, b, c, d) : a \in MinWidths, b \in Separators,
                          c \in BlockWidths, d \in Aligns}

\* ------------------------------------------------- _params_type, load_methods
\* inspect.getargspec(method) of a bound method: the number of named
\* parameters (self is one of them), whether it has *args, whether **kwargs
Signature(n, v, k) == [nargs |-> n, vargs |-> v, kw |-> k]
Signatures == {Signature(n, v, k) : n \in 0..MaxArgs, v \in BOOLEAN, k \in BOOLEAN}

\* lines 184-192 without the extra parameter of on_click
_params_type_one_arg(method_name, sig) ==
    IF sig.nargs = 1 /\ ~sig.vargs /\ ~sig.kw
    THEN PARAMS_NEW ELSE PARAMS_LEGACY

\* lines 184-192
_params_type(method_name, sig) ==
    LET arg_count == IF method_name = "on_click" THEN 2 ELSE 1 IN
    IF sig.nargs = arg_count /\ ~sig.vargs /\ ~sig.kw
    THEN PARAMS_NEW ELSE PARAMS_LEGACY

\* sorted(dir(class_inst)), for the names the model uses
ClassNames == <<"_private", "alpha", "beta", "kill", "on_click">>

\* classes with one callable
Classes == UNION {[{ClassNames[i]} -> Signatures] : i \in 1..Len(ClassNames)}

\* lines 233-243: neither private, nor on_click, nor kill
IsProducer(n) == n \notin {"_private", "on_click", "kill"}

\* the keys of self.methods after load_methods
Producers(class) ==
    SelectSeq(ClassNames, LAMBDA n : n \in DOMAIN class /\ IsProducer(n))

\* lines 239-242; the attributes stay False without the method
ClickEvents(class) ==
    IF "on_click" \in DOMAIN class
    THEN _params_type("on_click", class["on_click"]) ELSE "False"

HasKill(class) ==
    IF "kill" \in DOMAIN class
    THEN _params_type("kill", class["kill"]) ELSE "False"

\* line 248
CallTypes(class) ==
    [m \in 1..Len(Producers(class)) |->
        _params_type(Producers(class)[m], class[Producers(class)[m]])]

\* a class with the producers `names` and an on_click, all of them new style
NewStyleClass(names) ==
    [n \in {names[i] : i \in 1..Len(names)} \cup {"on_click"} |->
        IF n = "on_click" THEN Signature(2, FALSE, FALSE)
        ELSE Signature(1, FALSE, FALSE)]

\* ------------------------------------------------------------------- timers
\* self.timer is None, or a Timer that waits for its delay to pass ("armed",
\* firing at `due`), or a Timer that has fired or was cancelled ("dead").
\* Timer objects carry no other state, so the ones self.timer does not refer
\* to are kept as the bag of their firing times.
\* `by` names the method that started the Timer.
NoTimer == [ref |-> "None", due |-> 0, by |-> ""]
DeadTimer == [ref |-> "dead", due |-> 0, by |-> ""]
Timer(d, by) == [ref |-> "armed", due |-> d, by |-> by]

\* `if self.timer: self.timer.cancel()`
Timer_cancel(tm) == IF tm.ref = "armed" THEN DeadTimer ELSE tm

\* `self.timer = Timer(...)` drops the reference to the old Timer, which
\* still fires if it is armed
Orphaned(tm) ==
    IF tm.ref = "armed" THEN SetToBag({[due |-> tm.due, by |-> tm.by]})
    ELSE EmptyBag

\* ----------------------------------------------------------------- threads
\* a thread inside Module.run: where it is, the method it is at, and its
\* local cache_time
Running(p, idx, c) == [pc |-> p, i |-> idx, ct |-> c]
Enter == Running("begin", 0, None)
One(x) == SetToBag({x})
At(p) == {t \in BagToSet(runs) : t.pc = p}

\* ------------------------------------------------------------------ events
NoResp == [shape |-> "", isdict |-> FALSE, rec |-> EmptyDict]
NoEvent == [op |-> "", by |-> "", m |-> 0, flag |-> FALSE, delay |-> 0,
            resp |-> NoResp]
\* a producer is called (line 317 or 320)
CallEvent(m) == [NoEvent EXCEPT !.op = "call", !.by = "run", !.m = m]
\* a producer is not due and is skipped (line 310)
CachedEvent(m) == [NoEvent EXCEPT !.op = "cached", !.by = "run", !.m = m]
\* self.set_updated() -> py3_wrapper.notify_update
UpdateEvent(by, m, resp) ==
    [NoEvent EXCEPT !.op = "notify_update", !.by = by, !.m = m, !.resp = resp]
\* py3_wrapper.report_exception(msg, notify_user=flag)
ReportEvent(by, m, flag, resp) ==
    [NoEvent EXCEPT !.op = "report_exception", !.by = by, !.m = m,
                    !.flag = flag, !.resp = resp]
\* Timer(delay, self.run).start()
TimerEvent(by, delay) == [NoEvent EXCEPT !.op = "Timer", !.by = by, !.delay = delay]
\* an exception leaves the method
RaiseEvent(by) == [NoEvent EXCEPT !.op = "raise", !.by = by]

\* --------------------------------------------------------------- producers
\* What a producer call can come back with: an exception, a value that is
\* neither dict nor tuple, a (position, result) tuple, or a dict.
Deadlines(t) == {PY3_CACHE_FOREVER, t + 1}

ProducerDicts(t) ==
    {[full_text |-> x] : x \in Texts}
    \cup {[full_text |-> x, cached_until |-> d] : x \in Texts, d \in Deadlines(t)}
    \cup {[full_text |-> x, name |-> "mine", instance |-> "mine"] : x \in Texts}
    \cup {[color |-> "#FF0000"]}

Responses(t) ==
    {[shape |-> "raise", isdict |-> FALSE, rec |-> EmptyDict],
     [shape |-> "other", isdict |-> FALSE, rec |-> EmptyDict],
     [shape |-> "tuple", isdict |-> FALSE, rec |-> EmptyDict]}
    \cup {[shape |-> s, isdict |-> TRUE, rec |-> d] :
             s \in {"dict", "tuple"}, d \in ProducerDicts(t)}

\* the same without the test of line 336
Fails_unvalidated(resp) ==
    \/ resp.shape = "raise"
    \/ resp.shape = "other"
    \/ resp.shape = "tuple" /\ ~resp.isdict

\* lines 312-337: does the call end in the except branch
Fails(resp) ==
    \/ resp.shape = "raise"
    \/ resp.shape = "other"
    \/ resp.shape = "tuple" /\ ~resp.isdict
    \/ ~HasKey(resp.rec, "full_text")

\* lines 339-343: the result stored for a valid response
Result(resp) ==
    DictUpdate(DictSet(DictSet(resp.rec, "instance", module_inst),
                       "name", module_name),
               module_options)

\* lines 354-357
NextDeadline(result, t) ==
    IF HasKey(result, "cached_until") THEN result["cached_until"]
    ELSE t + cache_timeout

\* `not cache_time` of lines 308 and 359
Falsy(c) == c = None \/ c = 0

\* lines 308-309 and 359-360: the earliest deadline seen in this cycle
Track(c, d) == IF Falsy(c) \/ d < c THEN d ELSE c

\* line 307 with the comparison turned around
NotDue_reversed(m) == now > cached_until[m]

\* line 307
NotDue(m) == now < cached_until[m]

\* line 388 without the floor
RunDelay_nofloor(c, t) == Max(c - t, 0)

\* line 388: the delay of the Timer that run arms
RunDelay(c, t) == Max(c - t, minimum_interval)

\* line 114 with the delay counted from now
WakeDelay_now(c, t) == 0

\* line 114: the delay of the Timer that wake arms
WakeDelay(c, t) == Max(c - t, 0)

\* the test of lines 296 and 303 left out
lock_always_set == TRUE

\* lines 296 and 303: self.lock.is_set()
lock_is_set == lock

\* the for loop moves on to the next method, or leaves the loop
Advance(t, c) ==
    IF t.i + 1 > Len(methods) THEN Running("finish", 0, c)
    ELSE Running("loop", t.i + 1, c)

\* line 372 with the try around the loop: a failure ends the loop
AfterFailure_leaves(t) == Running("finish", 0, t.ct)

\* lines 312-377 without the try: the exception ends the thread
AfterFailure_raises(t) == Running("raised", 0, t.ct)

\* lines 372-377 are inside the loop: after a failure it goes on
AfterFailure(t) == Advance(t, t.ct)

\* the history of outcomes: "F" a failure is the latest, "FS" a success that
\* directly followed a failure, "S" any other success
HistAfter(h, failed) ==
    IF failed THEN "F" ELSE IF h = "F" THEN "FS" ELSE "S"

\* lines 124-128: the last output of every producer, in their order
get_latest == [m \in Meths |-> last_output[m]]

\* ------------------------------------------------------------------- Init
\* the Unit after Module.__init__ and Thread.start(), for a class whose
\* producers are `names` in sorted(dir(class_inst)) order: every producer is
\* due (line 247), and the Module's own thread enters run
load_methods(names) ==
    /\ class_inst = NewStyleClass(names)
    /\ click_events = ClickEvents(class_inst)
    /\ has_kill = HasKill(class_inst)
    /\ call_type = CallTypes(class_inst)
    /\ methods = names
    /\ cached_until = [m \in 1..Len(names) |-> now]
    /\ last_output = [m \in 1..Len(names) |->
                        [name |-> names[m], full_text |-> ""]]

Module_init(names, rec) ==
    /\ recording = rec
    /\ now = 1
    /\ lock = TRUE
    /\ stage = "loaded"
    /\ mod_config \in ModConfigs
    /\ ~ set_module_options_raises(mod_config)
    /\ module_options = set_module_options(mod_config)
    /\ load_methods(names)
    /\ cache_time = None
    /\ sleeping = FALSE
    /\ nagged = FALSE
    /\ timer = NoTimer
    /\ orphans = EmptyBag
    /\ runs = One(Enter)
    /\ event = NoEvent
    /\ calls = 0
    /\ terminated = FALSE
    /\ hist = "none"
    /\ retry_after = [m \in 1..Len(names) |-> 0]
    /\ forced = {}
    /\ outcome = [m \in 1..Len(names) |-> ""]

\* a Unit with one producer, the same with the history kept, and a Unit
\* with two producers
Init == Module_init(<<"alpha">>, FALSE)
InitHist == Module_init(<<"alpha">>, TRUE)
InitTwo == Module_init(<<"alpha", "beta">>, TRUE)

\* a Unit before Module.__init__, for any configuration and any class with
\* one callable
InitLoad ==
    /\ stage = "new"
    /\ mod_config \in AllModConfigs
    /\ class_inst \in Classes
    /\ click_events = "False"
    /\ has_kill = "False"
    /\ call_type = << >>
    /\ recording = FALSE
    /\ now = 1
    /\ lock = TRUE
    /\ module_options = EmptyDict
    /\ methods = << >>
    /\ cached_until = << >>
    /\ last_output = << >>
    /\ cache_time = None
    /\ sleeping = FALSE
    /\ nagged = FALSE
    /\ timer = NoTimer
    /\ orphans = EmptyBag
    /\ runs = EmptyBag
    /\ event = NoEvent
    /\ calls = 0
    /\ terminated = FALSE
    /\ hist = "none"
    /\ retry_after = << >>
    /\ forced = {}
    /\ outcome = << >>

loading == <<stage, mod_config, class_inst, click_events, has_kill, call_type>>
env == <<now, lock, module_options, methods, recording, loading>>

\* a history variable changes only where the history is kept
Rec(new, old) == IF recording THEN new ELSE old
history == <<terminated, hist, retry_after, forced, outcome>>

\* ------------------------------------------------------ Module.__init__
\* lines 24-52: set_module_options raises, or the options are set and
\* load_methods fills self.methods, self.click_events and self.has_kill
Module_new ==
    /\ stage = "new"
    /\ IF set_module_options_raises(mod_config)
       THEN /\ stage' = "raised"
            /\ UNCHANGED <<module_options, methods, cached_until, last_output,
                           click_events, has_kill, call_type, retry_after,
                           outcome>>
       ELSE /\ stage' = "loaded"
            /\ module_options' = set_module_options(mod_config)
            /\ methods' = Producers(class_inst)
            /\ cached_until' = [m \in 1..Len(methods') |-> now]
            /\ last_output' = [m \in 1..Len(methods') |->
                                 [name |-> methods'[m], full_text |-> ""]]
            /\ click_events' = ClickEvents(class_inst)
            /\ has_kill' = HasKill(class_inst)
            /\ call_type' = CallTypes(class_inst)
            /\ retry_after' = [m \in 1..Len(methods') |-> 0]
            /\ outcome' = [m \in 1..Len(methods') |-> ""]
    /\ UNCHANGED <<mod_config, class_inst, now, lock, recording, cache_time,
                   sleeping, nagged, timer, orphans, runs, event, calls,
                   terminated, hist, forced>>

\* ------------------------------------------------------------ environment
\* time passes; a Timer thread whose delay is over is dispatched before the
\* clock shows the next second
Tick ==
    /\ now < MaxTime
    /\ timer.ref = "armed" => timer.due > now
    /\ \A o \in BagToSet(orphans) : o.due > now
    /\ now' = now + 1
    /\ retry_after' = [m \in Meths |->
                         IF retry_after[m] > now + 1 THEN retry_after[m] ELSE 0]
    /\ event' = NoEvent
    /\ UNCHANGED <<loading, lock, module_options, methods, recording,
                   cached_until, last_output, cache_time, sleeping, nagged, timer, orphans, runs, calls,
                   terminated, hist, forced, outcome>>

\* time() has no bound.  Past MaxTime the clock of the model is held and a
\* second passes by moving every stored time one second back.  The code
\* compares a stored time with time() (line 307) or caps its distance from
\* time() from below (lines 114 and 388), so the times that lie behind the
\* clock all act alike and are kept at 1.
Back(v) == IF v \in {None, PY3_CACHE_FOREVER} THEN v ELSE Max(v - 1, 1)

BackRuns(B) ==
    LET f[b \in SubBag(B)] ==
            IF b = EmptyBag THEN EmptyBag
            ELSE LET t == CHOOSE x \in BagToSet(b) : TRUE
                 IN One([t EXCEPT !.ct = Back(t.ct)]) (+) f[b (-) One(t)]
    IN f[B]

BackTimers(B) ==
    LET f[b \in SubBag(B)] ==
            IF b = EmptyBag THEN EmptyBag
            ELSE LET o == CHOOSE x \in BagToSet(b) : TRUE
                 IN One([o EXCEPT !.due = Back(o.due)]) (+) f[b (-) One(o)]
    IN f[B]

Slide ==
    /\ now = MaxTime
    /\ timer.ref = "armed" => timer.due > now
    /\ \A o \in BagToSet(orphans) : o.due > now
    /\ cached_until' = [m \in Meths |-> Back(cached_until[m])]
    /\ cache_time' = Back(cache_time)
    /\ timer' = IF timer.ref = "armed"
                THEN [timer EXCEPT !.due = Back(timer.due)] ELSE timer
    /\ orphans' = BackTimers(orphans)
    /\ runs' = BackRuns(runs)
    /\ retry_after' = [m \in Meths |->
                         IF retry_after[m] > now + 1 THEN retry_after[m] - 1 ELSE 0]
    /\ event' = NoEvent
    /\ UNCHANGED <<env, last_output, sleeping, nagged, calls, terminated, hist,
                   forced, outcome>>

\* a call made by another thread (the main thread, the events thread, a
\* thread of the Unit's class through py3.update)
Call ==
    /\ calls < MaxCalls
    /\ calls' = calls + 1

\* py3_wrapper clears the lock when it stops
clear_lock ==
    /\ Call
    /\ lock
    /\ lock' = FALSE
    /\ event' = NoEvent
    /\ UNCHANGED <<loading, now, module_options, methods, recording,
                   cached_until, last_output, cache_time, sleeping, nagged, timer, orphans, runs, history>>

\* threading.Timer.run: the delay of the Timer self.timer refers to is over
\* and it was not cancelled; its thread enters Module.run
timer_fire ==
    /\ timer.ref = "armed"
    /\ now >= timer.due
    /\ timer' = DeadTimer
    /\ runs' = runs (+) One(Enter)
    /\ event' = NoEvent
    /\ UNCHANGED <<env, cached_until, last_output, cache_time, sleeping, nagged,
                   orphans, calls, history>>

\* the same for a Timer that self.timer no longer refers to
orphan_fire ==
    /\ \E o \in BagToSet(orphans) :
          /\ now >= o.due
          /\ orphans' = orphans (-) One(o)
    /\ runs' = runs (+) One(Enter)
    /\ event' = NoEvent
    /\ UNCHANGED <<env, cached_until, last_output, cache_time, sleeping, nagged,
                   timer, calls, history>>

\* ------------------------------------------------------------- Module.run
\* lines 292-297: cancel any existing timer, test the lock
run_begin ==
    /\ \E t \in At("begin") :
          runs' = IF lock_is_set
                  THEN (runs (-) One(t)) (+) One(Running("loop", 1, None))
                  ELSE runs (-) One(t)
    /\ timer' = Timer_cancel(timer)
    /\ event' = NoEvent
    /\ outcome' = Rec([m \in Meths |-> ""], outcome)
    /\ UNCHANGED <<env, cached_until, last_output, cache_time, sleeping, nagged,
                   orphans, calls, terminated, hist, retry_after, forced>>

\* lines 299-322: one iteration up to the producer call
run_loop ==
    /\ \E t \in At("loop") :
          LET m == t.i IN
          IF ~lock_is_set
          THEN /\ runs' = (runs (-) One(t)) (+) One(Running("finish", 0, t.ct))
               /\ event' = NoEvent
               /\ UNCHANGED <<forced, outcome>>
          ELSE IF NotDue(m)
          THEN /\ runs' = (runs (-) One(t))
                            (+) One(Advance(t, Track(t.ct, cached_until[m])))
               /\ event' = CachedEvent(m)
               /\ outcome' = Rec([outcome EXCEPT ![m] = "cached"], outcome)
               /\ UNCHANGED forced
          ELSE /\ runs' = (runs (-) One(t)) (+) One(Running("call", m, t.ct))
               /\ event' = CallEvent(m)
               /\ forced' = Rec(forced \ {m}, forced)
               /\ UNCHANGED outcome
    /\ UNCHANGED <<env, cached_until, last_output, cache_time, sleeping, nagged,
                   timer, orphans, calls, terminated, hist, retry_after>>

\* lines 324-371: the producer returned a valid response
run_success ==
    /\ \E t \in At("call") : \E resp \in Responses(now) :
          /\ ~Fails(resp)
          /\ LET m == t.i
                 result == Result(resp)
                 cu == NextDeadline(result, now) IN
                /\ cached_until' = [cached_until EXCEPT ![m] = cu]
                /\ last_output' = [last_output EXCEPT ![m] = result]
                /\ runs' = (runs (-) One(t)) (+) One(Advance(t, Track(t.ct, cu)))
                /\ event' = UpdateEvent("run", m, resp)
                /\ retry_after' = Rec([retry_after EXCEPT ![m] = 0], retry_after)
                /\ outcome' = Rec([outcome EXCEPT ![m] = "ok"], outcome)
    /\ hist' = Rec(HistAfter(hist, FALSE), hist)
    /\ UNCHANGED <<env, cache_time, sleeping, nagged, timer, orphans, calls,
                   terminated, forced>>

\* lines 372-376: the producer raised or broke the response contract
run_failure ==
    /\ \E t \in At("call") : \E resp \in Responses(now) :
          /\ Fails(resp)
          /\ runs' = (runs (-) One(t)) (+) One([t EXCEPT !.pc = "nag"])
          /\ event' = ReportEvent("run", t.i, ~nagged, resp)
          /\ retry_after' = Rec([retry_after EXCEPT ![t.i] = now + cache_timeout],
                                retry_after)
          /\ outcome' = Rec([outcome EXCEPT ![t.i] = "failed"], outcome)
    /\ hist' = Rec(HistAfter(hist, TRUE), hist)
    /\ UNCHANGED <<env, cached_until, last_output, cache_time, sleeping, nagged,
                   timer, orphans, calls, terminated, forced>>

\* line 377
run_nag ==
    /\ \E t \in At("nag") :
          runs' = (runs (-) One(t)) (+) One(AfterFailure(t))
    /\ nagged' = TRUE
    /\ event' = NoEvent
    /\ UNCHANGED <<env, cached_until, last_output, cache_time, sleeping, timer,
                   orphans, calls, history>>

\* lines 379-387: store the Unit's deadline, decide whether to re-arm
run_finish ==
    /\ \E t \in At("finish") :
          LET c == IF t.ct = None THEN now + cache_timeout ELSE t.ct IN
             /\ cache_time' = c
             /\ runs' = IF c = PY3_CACHE_FOREVER \/ sleeping
                        THEN runs (-) One(t)
                        ELSE (runs (-) One(t)) (+) One(Running("arm", 0, c))
    /\ event' = NoEvent
    /\ UNCHANGED <<env, cached_until, last_output, sleeping, nagged, timer,
                   orphans, calls, history>>

\* lines 388-390: arm the next timer; the thread ends
run_arm ==
    /\ \E t \in At("arm") :
          LET delay == RunDelay(t.ct, now) IN
             /\ runs' = runs (-) One(t)
             /\ orphans' = orphans (+) Orphaned(timer)
             /\ timer' = Timer(now + delay, "run")
             /\ event' = TimerEvent("run", delay)
    /\ UNCHANGED <<env, cached_until, last_output, cache_time, sleeping, nagged,
                   calls, history>>

\* ------------------------------------------------------- lifecycle calls
\* lines 85-99
force_update ==
    /\ Call
    /\ cached_until' = [m \in Meths |-> now]
    /\ timer' = Timer(now, "force_update")
    /\ event' = TimerEvent("force_update", 0)
    /\ retry_after' = [m \in Meths |-> 0]
    /\ forced' = Rec(Meths, forced)
    /\ UNCHANGED <<env, last_output, cache_time, sleeping, nagged, orphans,
                   runs, terminated, hist, outcome>>

\* lines 101-105
sleep ==
    /\ Call
    /\ sleeping' = TRUE
    /\ timer' = Timer_cancel(timer)
    /\ event' = NoEvent
    /\ UNCHANGED <<env, cached_until, last_output, cache_time, nagged, orphans,
                   runs, history>>

\* lines 107-116; None - time() raises TypeError.  The event keeps whether
\* the Unit was sleeping.
wake ==
    /\ Call
    /\ sleeping' = FALSE
    /\ IF cache_time = PY3_CACHE_FOREVER
       THEN /\ event' = NoEvent
            /\ UNCHANGED <<timer, orphans>>
       ELSE IF cache_time = None
       THEN /\ event' = RaiseEvent("wake")
            /\ UNCHANGED <<timer, orphans>>
       ELSE LET delay == WakeDelay(cache_time, now) IN
            /\ orphans' = orphans (+) Orphaned(timer)
            /\ timer' = Timer(now + delay, "wake")
            /\ event' = [TimerEvent("wake", delay) EXCEPT !.flag = sleeping]
    /\ UNCHANGED <<env, cached_until, last_output, cache_time, nagged, runs,
                   history>>

\* lines 392-408; an exception of the kill method is swallowed
kill ==
    /\ Call
    /\ timer' = Timer_cancel(timer)
    /\ terminated' = Rec(TRUE, terminated)
    /\ event' = NoEvent
    /\ UNCHANGED <<env, cached_until, last_output, cache_time, sleeping, nagged,
                   orphans, runs, hist, retry_after, forced, outcome>>

\* lines 266-282: the on_click method returns and set_updated is called, or
\* it raises and the exception is reported
click_event ==
    /\ Call
    /\ \E raised \in BOOLEAN :
          event' = IF raised THEN ReportEvent("click_event", 0, TRUE, NoResp)
                   ELSE UpdateEvent("click_event", 0, NoResp)
    /\ UNCHANGED <<env, cached_until, last_output, cache_time, sleeping, nagged,
                   timer, orphans, runs, history>>

Next ==
    \/ Tick
    \/ clear_lock
    \/ timer_fire
    \/ orphan_fire
    \/ run_begin
    \/ run_loop
    \/ run_success
    \/ run_failure
    \/ run_nag
    \/ run_finish
    \/ run_arm
    \/ force_update
    \/ sleep
    \/ wake
    \/ kill
    \/ click_event

\* the Unit left to itself until py3_wrapper stops
NextTwo ==
    \/ Tick
    \/ clear_lock
    \/ timer_fire
    \/ run_begin
    \/ run_loop
    \/ run_success
    \/ run_failure
    \/ run_nag
    \/ run_finish
    \/ run_arm

\* the construction of a Unit
NextLoad == Module_new

\* a Unit whose lock stays set and that is not killed, for all time
NextLive ==
    \/ Tick
    \/ Slide
    \/ timer_fire
    \/ orphan_fire
    \/ run_begin
    \/ run_loop
    \/ run_success
    \/ run_failure
    \/ run_nag
    \/ run_finish
    \/ run_arm
    \/ force_update
    \/ sleep
    \/ wake

\* time passes, a Timer whose delay is over starts its thread, a thread in
\* Module.run goes on to its next statement, a producer that was called
\* returns or raises; the calls of other threads are under no obligation
Fairness ==
    /\ WF_vars(Tick)
    /\ WF_vars(Slide)
    /\ WF_vars(timer_fire)
    /\ WF_vars(orphan_fire)
    /\ WF_vars(run_begin)
    /\ WF_vars(run_loop)
    /\ WF_vars(run_success \/ run_failure)
    /\ WF_vars(run_nag)
    /\ WF_vars(run_finish)
    /\ WF_vars(run_arm)

Spec == Init /\ [][Next]_vars
SpecHist == InitHist /\ [][Next]_vars
SpecTwo == InitTwo /\ [][NextTwo]_vars
SpecLoad == InitLoad /\ [][NextLoad]_vars
SpecLive == Init /\ [][NextLive]_vars /\ Fairness

\* ------------------------------------------------------------------ claims
\* C1: when the run cycle comes to a producer m at a time now < cached_until[m]
\* it does not call m, and m's last output and deadline stay as they are.
C1_NotDueIsSkipped ==
    [][\A m \in Meths :
          ( /\ now < cached_until[m]
            /\ event'.by = "run" /\ event'.m = m
            /\ event'.op \in {"call", "cached"} )
          => /\ event'.op = "cached"
             /\ cached_until'[m] = cached_until[m]
             /\ last_output'[m] = last_output[m]]_vars

\* a run cycle has just skipped a producer that a previous cycle called
C1_Witness ==
    /\ event.op = "cached"
    /\ now < cached_until[event.m]
    /\ HasKey(last_output[event.m], "instance")

\* C2: while the Unit is sleeping no producer is called.
C2_NoCallWhileSleeping == sleeping => event.op # "call"

\* C3: once a run cycle has stored the cache-forever deadline, no Timer is
\* armed for the Unit other than one started by force_update.
C3_ForeverStaysQuiet ==
    cache_time = PY3_CACHE_FOREVER
    => /\ timer.ref = "armed" => timer.by = "force_update"
       /\ \A o \in BagToSet(orphans) : o.by = "force_update"

\* C4: a producer that force_update made due stays due until the run cycle
\* force_update triggers calls it.
C4_ForcedStaysDue == \A m \in forced : cached_until[m] <= now

\* C5: a producer call that raises, returns neither a dict nor a (position,
\* dict) tuple, or returns a dict without full_text is reported, and every
\* last output stays as it is.
C5_FailureKeepsLastOutput ==
    [][LET resp == event'.resp
           bad == \/ resp.shape \notin {"dict", "tuple"}
                  \/ ~resp.isdict
                  \/ "full_text" \notin DOMAIN resp.rec
       IN ( /\ event'.by = "run"
            /\ event'.op \in {"notify_update", "report_exception"}
            /\ bad )
          => /\ event'.op = "report_exception"
             /\ last_output' = last_output]_vars

\* a dict without full_text has just been reported while the producer's last
\* output is the one of an earlier successful call
C5_Witness ==
    /\ event.op = "report_exception" /\ event.by = "run"
    /\ event.resp.shape = "dict"
    /\ ~HasKey(event.resp.rec, "full_text")
    /\ last_output[event.m].full_text = "ok"

\* C6: a failure that directly follows a failure of the Unit is reported
\* with notify_user false.
C6_RepeatNotEscalated ==
    [][( /\ event'.op = "report_exception" /\ event'.by = "run"
         /\ hist = "F" )
       => ~event'.flag]_vars

\* C7: a failure that follows a success that followed a failure is reported
\* with notify_user true.
C7_SuccessResetsNagged ==
    [][( /\ event'.op = "report_exception" /\ event'.by = "run"
         /\ hist = "FS" )
       => event'.flag]_vars

\* C8: without a force_update, a producer that failed is not called again
\* before the time of the failure plus cache_timeout.
C8_FailedWaitsDefault ==
    event.op = "call" => now >= retry_after[event.m]

\* C9: every click_event ends with set_updated.
C9_ClickAlwaysUpdates ==
    event.by = "click_event" => event.op = "notify_update"

\* C10: after kill no Timer is started for the Unit.
C10_NoTimerAfterKill == terminated => event.op # "Timer"

C12_TimerDelay ==
    [][/\ (At("finish") # {} /\ At("finish")' = {})
          => LET tracked == {m \in Meths : outcome[m] \in {"cached", "ok"}}
                 deadline ==
                    IF tracked = {} THEN now + cache_timeout
                    ELSE CHOOSE d \in {cached_until[m] : m \in tracked} :
                            \A m \in tracked : d <= cached_until[m]
             IN /\ cache_time' = deadline
                /\ (~sleeping /\ deadline # PY3_CACHE_FOREVER)
                      => At("arm")' # {}
       /\ (At("arm") # {} /\ At("arm")' = {})
          => /\ event'.op = "Timer"
             /\ event'.delay = IF cache_time - now >= minimum_interval
                               THEN cache_time - now ELSE minimum_interval
             /\ timer'.ref = "armed"
             /\ timer'.due = now + event'.delay]_vars

\* a cycle that ran after the first one has skipped the first producer,
\* called the second, and armed the Timer for the first producer's deadline
C12_Witness ==
    /\ event.op = "Timer" /\ event.by = "run"
    /\ Len(methods) = 2
    /\ outcome[1] = "cached" /\ outcome[2] = "ok"
    /\ timer.ref = "armed"
    /\ timer.due = cached_until[1]
    /\ event.delay = cached_until[1] - now

\* C13: wake clears sleeping and leaves every producer's deadline and last
\* output alone; with the cache-forever deadline stored it arms no Timer,
\* and with another deadline stored it arms one with the delay
\* max(cache_time - now, 0).
C13_WakeRearms ==
    [][/\ event'.by = "wake" => ~sleeping'
       /\ (sleeping /\ ~sleeping')
          => /\ cached_until' = cached_until
             /\ last_output' = last_output
             /\ cache_time = PY3_CACHE_FOREVER
                   => /\ timer' = timer /\ orphans' = orphans
                      /\ event'.op # "Timer"
             /\ cache_time \notin {PY3_CACHE_FOREVER, None}
                   => /\ event'.op = "Timer" /\ event'.by = "wake"
                      /\ event'.delay = IF cache_time > now
                                        THEN cache_time - now ELSE 0
                      /\ timer'.ref = "armed"
                      /\ timer'.due = now + event'.delay]_vars

\* wake has re-armed a sleeping Unit for a stored deadline that lies ahead
C13_Witness ==
    /\ event.op = "Timer" /\ event.by = "wake"
    /\ event.flag /\ ~sleeping
    /\ event.delay > 0
    /\ timer.due = cache_time

\* C14 as claimed: a Unit that was constructed has no wrongly typed
\* universal option: min_width is a number, separator a bool,
\* separator_block_width an int, align one of left, center, right.
C14_WrongTypeFailsLoad ==
    stage = "loaded"
    => /\ HasKey(module_options, "min_width")
             => module_options["min_width"].t \in {"int", "float"}
       /\ HasKey(module_options, "separator")
             => module_options["separator"].t = "bool"
       /\ HasKey(module_options, "separator_block_width")
             => module_options["separator_block_width"].t = "int"
       /\ HasKey(module_options, "align")
             => /\ module_options["align"].t = "str"
                /\ Lower(module_options["align"].v)
                      \in {"left", "center", "right"}

\* C14 as amended: the construction raises exactly when the configuration
\* gives a separator that is not a bool, a separator_block_width that is
\* not an int (a bool is one), or an align that is not a string spelling
\* left, center or right; otherwise the Unit's options are the options the
\* configuration gives, min_width of any type among them.
C14_OptionsChecked ==
    LET Given(o) == HasKey(mod_config, o)
        wrong ==
            \/ Given("separator") /\ mod_config["separator"].t # "bool"
            \/ /\ Given("separator_block_width")
               /\ mod_config["separator_block_width"].t \notin {"int", "bool"}
            \/ /\ Given("align")
               /\ \/ mod_config["align"].t # "str"
                  \/ Lower(mod_config["align"].v)
                        \notin {"left", "center", "right"}
    IN /\ stage = "raised" => wrong
       /\ stage = "loaded"
             => /\ ~wrong
                /\ DOMAIN module_options = DOMAIN mod_config
                /\ \A o \in DOMAIN mod_config :
                      module_options[o] = mod_config[o]

\* the construction has raised for a separator that is a string
C14_Witness ==
    /\ stage = "raised"
    /\ HasKey(mod_config, "separator")
    /\ mod_config["separator"].t = "str"

\* C15 as claimed: a producer or kill method is classified new exactly when
\* it has one parameter besides self and neither *args nor **kwargs, and
\* an on_click method exactly when its only parameter besides self is the
\* event.
C15_OneParameterIsNew ==
    stage = "loaded"
    => \A n \in DOMAIN class_inst :
          LET sig == class_inst[n]
              plain == ~sig.vargs /\ ~sig.kw
              besides_self == sig.nargs - 1
              IsNew(type) == (type = PARAMS_NEW) <=> (besides_self = 1 /\ plain)
          IN /\ n = "on_click" => IsNew(click_events)
             /\ n = "kill" => IsNew(has_kill)
             /\ IsProducer(n) => \A m \in Meths : IsNew(call_type[m])

\* C15 as amended: a producer or kill method is classified new exactly when
\* it has no parameter besides self and neither *args nor **kwargs, an
\* on_click method exactly when its only parameter besides self is the
\* event; every other one is classified legacy.
C15_ParamsType ==
    stage = "loaded"
    => \A n \in DOMAIN class_inst :
          LET sig == class_inst[n]
              plain == ~sig.vargs /\ ~sig.kw
              besides_self == sig.nargs - 1
              Is(type, new) == type = IF new THEN PARAMS_NEW ELSE PARAMS_LEGACY
          IN /\ n = "on_click" => Is(click_events, besides_self = 1 /\ plain)
             /\ n = "kill" => Is(has_kill, besides_self = 0 /\ plain)
             /\ IsProducer(n)
                   => /\ Len(methods) = 1
                      /\ Is(call_type[1], besides_self = 0 /\ plain)

\* an on_click(self, event) has been classified new
C15_Witness ==
    /\ stage = "loaded"
    /\ "on_click" \in DOMAIN class_inst
    /\ class_inst["on_click"] = Signature(2, FALSE, FALSE)
    /\ click_events = PARAMS_NEW

\* C16: at no time are two producer calls of the Unit in progress.
C16_OneCallAtATime ==
    /\ Cardinality(At("call")) <= 1
    /\ \A t \in At("call") : CopiesIn(t, runs) = 1

\* C17: a run cycle that starts never cancels an armed Timer (the Timer
\* self.timer refers to when a cycle starts was armed after the Timer that
\* started the cycle): outside the calls of sleep, kill and force_update an
\* armed Timer stops being armed only by firing, which starts a run thread.
C17_RunSparesNewerTimer ==
    [][(timer.ref = "armed" /\ timer'.ref = "dead" /\ calls' = calls)
       => BagCardinality(runs') > BagCardinality(runs)]_vars

\* C18: a sleeping Unit has no armed Timer.
C18_NoTimerWhileSleeping ==
    sleeping => (timer.ref # "armed" /\ orphans = EmptyBag)

\* C19: a run cycle that is not cut short by the lock reaches its end only
\* after it has skipped or called every producer, whether or not one of them
\* failed; and while the lock is set a Unit whose run cycle is over has a
\* Timer armed, unless its deadline is the cache-forever one.
C19_FailureContained ==
    [][/\ (At("finish") # {} /\ At("finish")' = {} /\ lock)
          => \A m \in Meths : outcome[m] # ""
       /\ (runs' = EmptyBag /\ lock')
          => (timer'.ref = "armed" \/ cache_time' = PY3_CACHE_FOREVER)]_vars

\* the first producer failed, the second was called all the same, and the
\* cycle has armed the next Timer
C19_Witness ==
    /\ Len(methods) = 2
    /\ outcome[1] = "failed" /\ outcome[2] = "ok"
    /\ event.op = "Timer" /\ event.by = "run"
    /\ timer.ref = "armed"

\* C20: a run cycle that reaches its end with the lock set stores the least
\* of all the producers' deadlines as the Unit's deadline.
C20_CacheTimeIsMinimum ==
    [][(At("finish") # {} /\ At("finish")' = {} /\ lock)
       => /\ \E m \in Meths : cache_time' = cached_until[m]
          /\ \A m \in Meths : cache_time' <= cached_until[m]]_vars
\* C21: every record get_latest gives carries a name and an instance, the
\* Unit's own where the producer gave none, before a producer's first
\* successful call too; and a record just stored keeps the name and the
\* instance the producer gave it.
C21_RecordsCarryUnit ==
    /\ \A m \in Meths :
          /\ HasKey(get_latest[m], "name")
          /\ HasKey(get_latest[m], "instance")
    /\ (event.op = "notify_update" /\ event.by = "run")
          => LET given == event.resp.rec
                 rec == get_latest[event.m]
             IN /\ rec["name"] = IF HasKey(given, "name") THEN given["name"]
                                 ELSE module_name
                /\ rec["instance"] = IF HasKey(given, "instance")
                                     THEN given["instance"] ELSE module_inst

\* C22: at most one Timer of the Unit is armed at any time.
C22_OneTimer ==
    (IF timer.ref = "armed" THEN 1 ELSE 0) + BagCardinality(orphans) <= 1

\* C23: if the Unit does not stay asleep and its producer never has the
\* cache-forever deadline, the producer is called again and again: every run
\* cycle is followed by another one that finds the producer due, whatever
\* the producer returns or raises and whatever force_update, sleep and wake
\* calls come in between.  (The lock stays set and the Unit is not killed.)
C23_CalledForever ==
    ( /\ []<>(~sleeping)
      /\ [](\A m \in Meths : cached_until[m] # PY3_CACHE_FOREVER) )
    => []<>(event.op = "call")

\* the producer is called by a later cycle of a Unit that is awake, after a
\* failure and after the last call another thread made
C23_Witness ==
    /\ event.op = "call"
    /\ nagged /\ ~sleeping
    /\ calls = MaxCalls
    /\ now = MaxTime
    /\ cache_time \notin {None, PY3_CACHE_FOREVER}

\* C24: a run cycle in which one producer returned the cache-forever
\* deadline and the other a deadline D goes on to arm a Timer, and a
\* producer whose deadline is the cache-forever one is not called again.
C24_FiniteSiblingRearmed ==
    [][/\ ( /\ At("finish") # {} /\ At("finish")' = {}
            /\ Len(methods) = 2
            /\ \A m \in Meths : outcome[m] = "ok"
            /\ \E m \in Meths : cached_until[m] = PY3_CACHE_FOREVER
            /\ \E m \in Meths : cached_until[m] > now )
          => /\ At("arm")' # {}
             /\ \E m \in Meths : cache_time' = cached_until[m]
                                  /\ cached_until[m] > now
       /\ event'.op = "call"
          => cached_until[event'.m] # PY3_CACHE_FOREVER]_vars

\* C25: wake never raises, and it leaves the Unit not sleeping.
C25_WakeIsSafe ==
    event.by = "wake" => (event.op # "raise" /\ ~sleeping)
=============================================================================
